---- MODULE Spec2Model ----
(***************************************************************************)
(* canvas-json-renderer: a model of the two server variants the repository *)
(* ships.                                                                  *)
(*                                                                         *)
(*  variant "canvas"    - the node-canvas server (the JavaScript that      *)
(*                        follows the build instructions in src/Dockerfile)*)
(*                        renderFabricCanvasFromJSON, renderObjectWithOrigin*)
(*                        renderText, renderImage and POST /render.        *)
(*  variant "puppeteer" - src/server.js: initBrowser,                      *)
(*                        renderFabricCanvasToBuffer, renderCanvasToPNG,   *)
(*                        the four POST endpoints, GET /test-browser and   *)
(*                        the SIGINT handler.                              *)
(*                                                                         *)
(* One step of the model is one run-to-completion slice of JavaScript: the *)
(* code between two suspension points (await of a promise that is really   *)
(* pending).  Numbers that the code reads through `field || default` are   *)
(* integers in which 0 stands for every falsy value (0, null, undefined),  *)
(* and strings read that way use "" for every falsy value.  Box sizes are  *)
(* even so that width / 2 is exact in the integers.                        *)
(***************************************************************************)
EXTENDS Integers, Sequences, FiniteSets, TLC

VARIABLES
    variant,      \* which server.js this process runs
    pc,           \* canvas: "idle" | "objects" | "children" | "responded"
    doc,          \* canvas: the request body of the request being served
    canvas,       \* canvas: the surface and its 2d context (NoCanvas if none)
    i,            \* canvas: number of top-level objects already started
    j,            \* canvas: number of children of the current group started
    groupActual,  \* canvas: groupActualX / groupActualY of the current group
    pending,      \* canvas: ids of nodes whose loadImage promise is pending
    response,     \* canvas: the HTTP response sent for the request; error
                  \*         names the expression that threw (status 500)
    fileWritten,  \* canvas: fs.writeFileSync wrote the file of the request
    errorLog,     \* canvas: console.error("Error loading image:") entries
    browser,      \* puppeteer: the module variable `browser` (0 is null)
    launches,     \* puppeteer: number of puppeteer.launch() invocations
    rpc,          \* puppeteer: position of each caller of initBrowser
    req,          \* puppeteer: the request each caller is serving
    got,          \* puppeteer: the browser instances initBrowser has returned
    page,         \* puppeteer: "none" | "open" | "closing" | "closed" page of
                  \*            each caller
    surface,      \* puppeteer: the fabric canvas size created in the page
    reply,        \* puppeteer: HTTP status answered (0 before the answer)
    saved,        \* puppeteer: fs.writeFileSync wrote the file of the caller
    shutdown      \* puppeteer: "running" | "closing" (SIGINT's browser.close()
                  \*            is pending) | "exited"

cvars == <<pc, doc, canvas, i, j, groupActual, pending, response, fileWritten, errorLog>>
pvars == <<browser, launches, rpc, req, got, page, surface, reply, saved, shutdown>>
vars == <<variant, pc, doc, canvas, i, j, groupActual, pending, response,
          fileWritten, errorLog, browser, launches, rpc, req, got, page,
          surface, reply, saved, shutdown>>

(***************************************************************************)
(* Bounds of the model.                                                    *)
(***************************************************************************)
MaxNodes == 3
MaxRequests == 1

(***************************************************************************)
(* JavaScript `a || b` on numbers and on strings.                          *)
(***************************************************************************)
OrNum(v, d) == IF v = 0 THEN d ELSE v
OrStr(v, d) == IF v = "" THEN d ELSE v

\* `x.objects` kinds: a field that is absent, null, a string, a plain
\* object, or an array.
ObjectsKinds == {"absent", "null", "string", "object", "array"}
Truthy(kind) == kind \in {"string", "object", "array"}
IsArray(kind) == kind = "array"

(***************************************************************************)
(* The 2d context of node-canvas, as far as the renderer uses it.          *)
(* gs is the drawing state save()/restore() push and pop; the current      *)
(* transform is kept as the sequence of transform calls composed so far.   *)
(* cmds is the sequence of calls made on the context, each with the id of  *)
(* the node that made it and the drawing state it was made in.             *)
(***************************************************************************)
Font(weight, size, family) == [weight |-> weight, size |-> size, family |-> family]

InitialGs == [transform |-> <<>>,
              font |-> Font("normal", 10, "sans-serif"),
              fillStyle |-> "#000000",
              textAlign |-> "start",
              textBaseline |-> "alphabetic"]

Cmd(id, op, a, b, c, d, s, g) ==
    [id |-> id, op |-> op, a |-> a, b |-> b, c |-> c, d |-> d, s |-> s, gs |-> g]

Issue(cv, id, op, a, b, c, d, s) ==
    [cv EXCEPT !.cmds = Append(@, Cmd(id, op, a, b, c, d, s, cv.gs))]

createCanvas(w, h) ==
    [w |-> w, h |-> h, gs |-> InitialGs, stack |-> <<>>, cmds |-> <<>>]

\* No surface has been created for the request.
NoCanvas == createCanvas(0, 0)

save(cv, id) ==
    [Issue(cv, id, "save", 0, 0, 0, 0, "") EXCEPT !.stack = Append(@, cv.gs)]

restore(cv, id) ==
    IF cv.stack = <<>>
    THEN Issue(cv, id, "restore", 0, 0, 0, 0, "")
    ELSE [Issue(cv, id, "restore", 0, 0, 0, 0, "") EXCEPT
             !.gs = cv.stack[Len(cv.stack)],
             !.stack = SubSeq(cv.stack, 1, Len(cv.stack) - 1)]

Compose(cv, id, op, a, b) ==
    [Issue(cv, id, op, a, b, 0, 0, "") EXCEPT
        !.gs.transform = Append(@, [op |-> op, a |-> a, b |-> b])]

translate(cv, id, x, y) == Compose(cv, id, "translate", x, y)
\* rotate((angle * Math.PI) / 180): the argument is kept as the fraction
\* angle/180 of pi.
rotate(cv, id, num, den) == Compose(cv, id, "rotate", num, den)
scale(cv, id, sx, sy) == Compose(cv, id, "scale", sx, sy)

setFillStyle(cv, colour) == [cv EXCEPT !.gs.fillStyle = colour]
setFont(cv, font) == [cv EXCEPT !.gs.font = font]
setTextAlign(cv, v) == [cv EXCEPT !.gs.textAlign = v]
setTextBaseline(cv, v) == [cv EXCEPT !.gs.textBaseline = v]

fillRect(cv, id, x, y, w, h) == Issue(cv, id, "fillRect", x, y, w, h, "")
fillText(cv, id, text, x, y) == Issue(cv, id, "fillText", x, y, 0, 0, text)
drawImage(cv, id, x, y, w, h) == Issue(cv, id, "drawImage", x, y, w, h, "")

DrawOps == {"fillRect", "fillText", "drawImage"}

(***************************************************************************)
(* Scene documents.                                                        *)
(***************************************************************************)
\* Every field a node may carry; 0 and "" are "absent".  isNull marks an
\* entry of an objects array that is null instead of an object.
Blank == [isNull |-> FALSE, type |-> "", left |-> 0, top |-> 0, width |-> 0, height |-> 0,
          originX |-> "", originY |-> "", scaleX |-> 0,
          scaleY |-> 0, angle |-> 0, text |-> "", fontSize |-> 0, fontFamily |-> "",
          fontWeight |-> "", fill |-> "", src |-> "",
          objectsKind |-> "absent", objects |-> <<>>]

Placed == [Blank EXCEPT !.left = 10, !.top = 20, !.width = 4, !.height = 6,
              !.originX = "center", !.originY = "bottom", !.scaleX = 2,
              !.scaleY = 3, !.angle = 90, !.fontSize = 20,
              !.fontFamily = "Courier", !.fontWeight = "bold",
              !.fill = "#ff0000"]

GroupPlaced == [Blank EXCEPT !.left = 100, !.top = 50, !.width = 40,
                   !.height = 20, !.originX = "center", !.originY = "center"]

\* The entry `null` of {objects: [null]}.
NullEntry == [Blank EXCEPT !.isNull = TRUE]

Leaf(base, type, text, src) ==
    [base EXCEPT !.type = type, !.text = text, !.src = src]

Group(base, kind, objects) ==
    [base EXCEPT !.type = "group", !.objectsKind = kind, !.objects = objects]

Leaves ==
    {Leaf(b, "text", "Hi", "") : b \in {Blank, Placed}}
    \cup {Leaf(Placed, "i-text", "Hi", "")}
    \cup {Leaf(Placed, t, "", "") : t \in {"text", "i-text"}}
    \cup {Leaf(b, "image", "", "a.png") : b \in {Blank, Placed}}
    \cup {Leaf(Placed, "image", "", ""), Leaf(Placed, "rect", "", "")}
    \cup {NullEntry}

GroupBases == {Blank, GroupPlaced}

\* A node weighs one plus the number of its children.
NodesOfWeight(v) ==
    IF v = 1
    THEN Leaves \cup {Group(GroupPlaced, k, <<>>) : k \in {"absent", "array"}}
    ELSE {Group(g, "array", kids) : g \in GroupBases, kids \in [1..(v - 1) -> Leaves]}

RECURSIVE SeqsOfWeight(_)
SeqsOfWeight(w) ==
    IF w = 0 THEN {<<>>}
    ELSE UNION {{Append(s, n) : s \in SeqsOfWeight(w - v), n \in NodesOfWeight(v)}
                : v \in 1..w}

ObjectSeqs(maxNodes) == UNION {SeqsOfWeight(w) : w \in 0..maxNodes}

Unsized == [width |-> 0, height |-> 0]
Sized == [width |-> 200, height |-> 100]
DocSizes == {Unsized, Sized}

Doc(size, kind, objects) ==
    [width |-> size.width, height |-> size.height,
     objectsKind |-> kind, objects |-> objects]

\* The canvas server never reads the document's width and height, so the
\* scenes of Docs leave them out; ShapeDocs below varies them.
Docs(maxNodes) ==
    {Doc(Unsized, "array", s) : s \in ObjectSeqs(maxNodes)}
    \cup {Doc(Unsized, k, <<>>) : k \in ObjectsKinds \ {"array"}}

NoDoc == Doc(Unsized, "absent", <<>>)

(***************************************************************************)
(* The canvas variant: src/Dockerfile, lines 22-230.                       *)
(***************************************************************************)
CanvasWidth == 800
CanvasHeight == 700
DefaultFontSize == 16
PlaceholderSize == 100
ErrorFontSize == 12
ErrorLabelX == 10
ErrorLabelY == 20
HalfTurn == 180

\* The decoded images loadImage can resolve with (their intrinsic size).
Images == {[width |-> 64, height |-> 48]}

NoResponse == [status |-> 0, width |-> 0, height |-> 0, error |-> ""]

\* The expressions of POST /render that can throw: reading a field of a null
\* entry (lines 39 and 69), canvas.toBuffer (208), fs.writeFileSync (209).
EntryErrors == {"obj.type", "child.left"}
OutputErrors == {"toBuffer", "writeFileSync"}

\* The handler's catch block (lines 223-229).
Failure(error) == [status |-> 500, width |-> 0, height |-> 0, error |-> error]
Origin == [x |-> 0, y |-> 0]
Background == <<0, 0>>

\* if (!fabricData.objects || !Array.isArray(fabricData.objects))
InvalidCanvasData(fabricData) ==
    ~Truthy(fabricData.objectsKind) \/ ~IsArray(fabricData.objectsKind)

\* createCanvas(800, 700); ctx.fillStyle = "white"; ctx.fillRect(0, 0, 800, 700)
newSurface(fabricData) ==
    fillRect(setFillStyle(createCanvas(CanvasWidth, CanvasHeight), "white"),
             Background, 0, 0, CanvasWidth, CanvasHeight)

\* groupActualX without the group's own origin.
groupActualXRaw(obj) == OrNum(obj.left, 0)

groupActualX(obj) ==
    LET groupX == OrNum(obj.left, 0)
        groupWidth == OrNum(obj.width, 0)
        groupOriginX == OrStr(obj.originX, "left")
    IN  IF groupOriginX = "center" THEN groupX - (groupWidth \div 2)
        ELSE IF groupOriginX = "right" THEN groupX - groupWidth
        ELSE groupX

groupActualY(obj) ==
    LET groupY == OrNum(obj.top, 0)
        groupHeight == OrNum(obj.height, 0)
        groupOriginY == OrStr(obj.originY, "top")
    IN  IF groupOriginY = "center" THEN groupY - (groupHeight \div 2)
        ELSE IF groupOriginY = "bottom" THEN groupY - groupHeight
        ELSE groupY

childAbsoluteX(groupActX, child) ==
    LET childRelativeX == OrNum(child.left, 0)
        childWidth == OrNum(child.width, 0)
        childOriginX == OrStr(child.originX, "left")
        childAbsX == groupActX + childRelativeX
    IN  IF childOriginX = "center" THEN childAbsX - (childWidth \div 2)
        ELSE IF childOriginX = "right" THEN childAbsX - childWidth
        ELSE childAbsX

childAbsoluteY(groupActY, child) ==
    LET childRelativeY == OrNum(child.top, 0)
        childHeight == OrNum(child.height, 0)
        childOriginY == OrStr(child.originY, "top")
        childAbsY == groupActY + childRelativeY
    IN  IF childOriginY = "center" THEN childAbsY - (childHeight \div 2)
        ELSE IF childOriginY = "bottom" THEN childAbsY - childHeight
        ELSE childAbsY

\* actualX with the centre anchor a whole width off.
actualXFullWidth(obj) ==
    LET x == OrNum(obj.left, 0)
        width == OrNum(obj.width, 0)
        originX == OrStr(obj.originX, "left")
    IN  IF originX = "center" THEN x - width
        ELSE IF originX = "right" THEN x - width
        ELSE x

actualX(obj) ==
    LET x == OrNum(obj.left, 0)
        width == OrNum(obj.width, 0)
        originX == OrStr(obj.originX, "left")
    IN  IF originX = "center" THEN x - (width \div 2)
        ELSE IF originX = "right" THEN x - width
        ELSE x

actualY(obj) ==
    LET y == OrNum(obj.top, 0)
        height == OrNum(obj.height, 0)
        originY == OrStr(obj.originY, "top")
    IN  IF originY = "center" THEN y - (height \div 2)
        ELSE IF originY = "bottom" THEN y - height
        ELSE y

\* Lines 66-103: save, translate to the child's point, rotate, scale.
childTransform(cv, id, groupAct, child) ==
    LET c1 == save(cv, id)
        c2 == translate(c1, id, childAbsoluteX(groupAct.x, child),
                        childAbsoluteY(groupAct.y, child))
        scaleX == OrNum(child.scaleX, 1)
        scaleY == OrNum(child.scaleY, 1)
        angle == OrNum(child.angle, 0)
        c3 == IF angle # 0 THEN rotate(c2, id, angle, HalfTurn) ELSE c2
    IN  scale(c3, id, scaleX, scaleY)

\* Lines 116-141: save, translate to the object's point.
standaloneTransform(cv, id, obj) ==
    translate(save(cv, id), id, actualX(obj), actualY(obj))

isTextType(obj) == obj.type = "i-text" \/ obj.type = "text"
isImageType(obj) == obj.type = "image"

\* renderText without `if (!text) return`.
renderTextUnguarded(cv, id, textObj) ==
    LET fill == OrStr(textObj.fill, "#000000")
    IN  fillText(setFillStyle(cv, fill), id, OrStr(textObj.text, ""), 0, 0)

renderText(cv, id, textObj) ==
    LET text == OrStr(textObj.text, "")
        fontSize == OrNum(textObj.fontSize, DefaultFontSize)
        fontFamily == OrStr(textObj.fontFamily, "Arial")
        fontWeight == OrStr(textObj.fontWeight, "normal")
        fill == OrStr(textObj.fill, "#000000")
        c1 == setFont(cv, Font(fontWeight, fontSize, fontFamily))
        c2 == setTextAlign(c1, "left")
        c3 == setTextBaseline(c2, "top")
        c4 == setFillStyle(c3, fill)
    IN  IF text = "" THEN cv ELSE fillText(c4, id, text, 0, 0)

\* renderImage up to `await loadImage(src)`: is there anything to load?
imageHasSrc(imageObj) == imageObj.src # ""

\* renderImage after loadImage resolved with img.
renderImageLoaded(cv, id, imageObj, img) ==
    LET width == OrNum(imageObj.width, img.width)
        height == OrNum(imageObj.height, img.height)
    IN  drawImage(cv, id, 0, 0, width, height)

\* The catch block with the placeholder sized by the raw fields.
renderImageCatchRawSize(cv, id, imageObj) ==
    LET c1 == fillRect(setFillStyle(cv, "#cccccc"), id, 0, 0,
                       imageObj.width, imageObj.height)
        c2 == setFont(setFillStyle(c1, "#666666"),
                      Font("normal", ErrorFontSize, "Arial"))
    IN  fillText(c2, id, "Image Error", ErrorLabelX, ErrorLabelY)

\* renderImage's catch block.
renderImageCatch(cv, id, imageObj) ==
    LET width == OrNum(imageObj.width, PlaceholderSize)
        height == OrNum(imageObj.height, PlaceholderSize)
        c1 == fillRect(setFillStyle(cv, "#cccccc"), id, 0, 0, width, height)
        c2 == setFont(setFillStyle(c1, "#666666"),
                      Font("normal", ErrorFontSize, "Arial"))
    IN  fillText(c2, id, "Image Error", ErrorLabelX, ErrorLabelY)

\* A standalone object that returns without ctx.restore().
returnWithoutRestore(cv, id) == cv

\* ctx.restore() closing a child (line 111) and a standalone object (149).
restoreChild(cv, id) == restore(cv, id)
restoreStandalone(cv, id) == restore(cv, id)

\* A call that is not awaited: the caller goes on at once.
notAwaited(waiting) == TRUE

\* `await`: the caller goes on only when the promise it awaits has settled.
awaitSettled(waiting) == waiting = {}

NodeAt(d, id) ==
    IF id[2] = 0 THEN d.objects[id[1]] ELSE d.objects[id[1]].objects[id[2]]

closeNode(cv, id) ==
    IF id[2] = 0 THEN restoreStandalone(cv, id) ELSE restoreChild(cv, id)

\* The part of a leaf that runs before the first real suspension.
LeafStep(cv, id, obj) ==
    IF isTextType(obj) THEN closeNode(renderText(cv, id, obj), id)
    ELSE IF isImageType(obj) /\ imageHasSrc(obj) THEN cv
    ELSE closeNode(cv, id)

LeafWaits(obj) == ~isTextType(obj) /\ isImageType(obj) /\ imageHasSrc(obj)

\* POST /render (lines 192-202) up to the first object.  Every request gets
\* its own canvas and its own locals, so the model follows one request.
Post(inputs) ==
    /\ variant = "canvas"
    /\ pc = "idle"
    /\ \E d \in inputs :
          /\ doc' = d
          /\ IF InvalidCanvasData(d)
             THEN /\ response' = [status |-> 400, width |-> 0, height |-> 0,
                                   error |-> ""]
                  /\ canvas' = NoCanvas
                  /\ pc' = "responded"
             ELSE /\ response' = NoResponse
                  /\ canvas' = newSurface(d)
                  /\ pc' = "objects"
    /\ i' = 0
    /\ j' = 0
    /\ groupActual' = Origin
    /\ pending' = {}
    /\ errorLog' = <<>>
    /\ fileWritten' = FALSE
    /\ UNCHANGED <<variant, pvars>>

\* renderObjectWithOrigin for the next top-level object (lines 30-31, 38-63,
\* 114-149), up to its first suspension.  `obj.type` of a null entry throws
\* (line 39) and the handler's catch answers 500.
RenderObject ==
    /\ variant = "canvas"
    /\ pc = "objects"
    /\ awaitSettled(pending)
    /\ i < Len(doc.objects)
    /\ LET obj == doc.objects[i + 1]
           id == <<i + 1, 0>>
       IN  IF obj.isNull
           THEN /\ response' = Failure("obj.type")
                /\ pc' = "responded"
                /\ UNCHANGED <<canvas, pending, groupActual>>
           ELSE IF obj.type = "group"
           THEN /\ groupActual' = [x |-> groupActualX(obj), y |-> groupActualY(obj)]
                /\ pc' = IF Truthy(obj.objectsKind) /\ IsArray(obj.objectsKind)
                         THEN "children" ELSE "objects"
                /\ UNCHANGED <<canvas, pending, response>>
           ELSE /\ canvas' = LeafStep(standaloneTransform(canvas, id, obj), id, obj)
                /\ pending' = IF LeafWaits(obj) THEN pending \cup {id} ELSE pending
                /\ UNCHANGED <<groupActual, pc, response>>
    /\ i' = i + 1
    /\ j' = 0
    /\ UNCHANGED <<variant, doc, fileWritten, errorLog, pvars>>

\* One iteration of the loop over a group's children (lines 65-112).  For
\* a null child ctx.save() has run (line 66) when `child.left` throws (line
\* 69); nothing restores, and the handler's catch answers 500.
RenderChild ==
    /\ variant = "canvas"
    /\ pc = "children"
    /\ awaitSettled(pending)
    /\ j < Len(doc.objects[i].objects)
    /\ LET child == doc.objects[i].objects[j + 1]
           id == <<i, j + 1>>
       IN  IF child.isNull
           THEN /\ canvas' = save(canvas, id)
                /\ response' = Failure("child.left")
                /\ pc' = "responded"
                /\ UNCHANGED pending
           ELSE /\ canvas' = LeafStep(childTransform(canvas, id, groupActual, child),
                                      id, child)
                /\ pending' = IF LeafWaits(child) THEN pending \cup {id} ELSE pending
                /\ UNCHANGED <<pc, response>>
    /\ j' = j + 1
    /\ UNCHANGED <<variant, doc, i, groupActual, fileWritten, errorLog, pvars>>

\* The loop over the children ends; renderObjectWithOrigin returns.
EndGroup ==
    /\ variant = "canvas"
    /\ pc = "children"
    /\ awaitSettled(pending)
    /\ j = Len(doc.objects[i].objects)
    /\ pc' = "objects"
    /\ UNCHANGED <<variant, doc, canvas, i, j, groupActual, pending, response,
                   fileWritten, errorLog, pvars>>

\* loadImage(src) resolves: lines 176-179, then the caller's restore.
LoadResolved(id, img) ==
    /\ variant = "canvas"
    /\ id \in pending
    /\ canvas' = closeNode(renderImageLoaded(canvas, id, NodeAt(doc, id), img), id)
    /\ pending' = pending \ {id}
    /\ UNCHANGED <<variant, pc, doc, i, j, groupActual, response, fileWritten,
                   errorLog, pvars>>

\* loadImage(src) rejects: lines 180-189, then the caller's restore.
LoadRejected(id) ==
    /\ variant = "canvas"
    /\ id \in pending
    /\ errorLog' = Append(errorLog, id)
    /\ canvas' = closeNode(renderImageCatch(canvas, id, NodeAt(doc, id)), id)
    /\ pending' = pending \ {id}
    /\ UNCHANGED <<variant, pc, doc, i, j, groupActual, response, fileWritten,
                   pvars>>

\* Lines 202-222: the canvas is encoded, written and reported.
Respond ==
    /\ variant = "canvas"
    /\ pc = "objects"
    /\ awaitSettled(pending)
    /\ i = Len(doc.objects)
    /\ fileWritten' = TRUE
    /\ response' = [status |-> 200, width |-> canvas.w, height |-> canvas.h,
                    error |-> ""]
    /\ pc' = "responded"
    /\ UNCHANGED <<variant, doc, canvas, i, j, groupActual, pending, errorLog, pvars>>

\* Lines 208-209 throw (the encoder, or the file system: no directory, no
\* space, no permission): the catch of lines 223-229 answers 500 and the
\* request leaves no file.
RespondFailed(error) ==
    /\ variant = "canvas"
    /\ pc = "objects"
    /\ awaitSettled(pending)
    /\ i = Len(doc.objects)
    /\ response' = Failure(error)
    /\ pc' = "responded"
    /\ UNCHANGED <<variant, doc, canvas, i, j, groupActual, pending, fileWritten,
                   errorLog, pvars>>

CanvasInit ==
    /\ pc = "idle"
    /\ doc = NoDoc
    /\ canvas = NoCanvas
    /\ i = 0
    /\ j = 0
    /\ groupActual = Origin
    /\ pending = {}
    /\ response = NoResponse
    /\ fileWritten = FALSE
    /\ errorLog = <<>>

(***************************************************************************)
(* The puppeteer variant: src/server.js.                                   *)
(***************************************************************************)
DefaultWidth == 800
DefaultHeight == 700

\* Caller 0 is the app.listen callback; the others are HTTP requests.
Startup == 0
Requests == 1..MaxRequests
Callers == {Startup} \cup Requests

Endpoints == {"/render-buffer", "/render-base64", "/render", "/render-white"}
Wrapped == {"/render-buffer", "/render-base64"}   \* body is { fabricData, options }
Saving == {"/render", "/render-white"}            \* renderCanvasToPNG writes a file
TestBrowser == "/test-browser"                    \* GET, no body

\* `options` of a wrapped body: not given, null, or { transparent: false }.
OptionsKinds == {"absent", "null", "opaque"}

Body(endpoint, hasFabricData, options, d) ==
    [endpoint |-> endpoint, hasFabricData |-> hasFabricData,
     options |-> options, fabricData |-> d]

ShapeDocs ==
    {Doc(sz, "array", s) : sz \in DocSizes,
                           s \in SeqsOfWeight(0) \cup SeqsOfWeight(1) \cup SeqsOfWeight(2)}
    \cup {Doc(sz, k, <<>>) : sz \in DocSizes, k \in ObjectsKinds \ {"array"}}

FabricDocs ==
    {Doc(sz, "array", <<>>) : sz \in DocSizes}
    \cup {Doc(Sized, k, <<>>) : k \in {"absent", "string"}}

\* Every render endpoint gets a valid document without a size and the
\* invalid ones; one endpoint of each kind also gets a valid document with a
\* size; the wrapped ones also come without fabricData and with the other
\* kinds of options.
Bodies ==
    {Body(e, TRUE, "absent", d) :
        e \in Endpoints, d \in FabricDocs \ {Doc(Sized, "array", <<>>)}}
    \cup {Body(e, TRUE, "absent", Doc(Sized, "array", <<>>)) :
            e \in {"/render-buffer", "/render"}}
    \cup {Body(e, FALSE, "absent", NoDoc) : e \in Wrapped}
    \cup {Body("/render-buffer", TRUE, o, Doc(Unsized, "array", <<>>)) :
            o \in OptionsKinds \ {"absent"}}
    \cup {Body("/render-base64", TRUE, "null", Doc(Sized, "string", <<>>))}
    \cup {Body(TestBrowser, FALSE, "absent", NoDoc)}

NoBody == Body("", FALSE, "absent", NoDoc)
NoSurface == [w |-> 0, h |-> 0]

\* /render-buffer, /render-base64:
\* if (!fabricData || !fabricData.objects || !Array.isArray(fabricData.objects))
InvalidWrappedRequest(body) ==
    \/ ~body.hasFabricData
    \/ ~Truthy(body.fabricData.objectsKind)
    \/ ~IsArray(body.fabricData.objectsKind)

\* The check without Array.isArray.
InvalidRenderRequestNoArrayCheck(body) == ~Truthy(body.fabricData.objectsKind)

\* /render, /render-white:
\* if (!fabricData.objects || !Array.isArray(fabricData.objects))
InvalidRenderRequest(body) ==
    \/ ~Truthy(body.fabricData.objectsKind)
    \/ ~IsArray(body.fabricData.objectsKind)

\* GET /test-browser reads no body and validates nothing.
InvalidRequest(body) ==
    IF body.endpoint \in Wrapped THEN InvalidWrappedRequest(body)
    ELSE IF body.endpoint \in Saving THEN InvalidRenderRequest(body)
    ELSE FALSE

\* const { transparent = true, ... } = options (line 127) throws a
\* TypeError when options is null: the defaults `options = {}` of lines 205
\* and 126 stand in for undefined only.
OptionsThrow(body) == body.endpoint \in Wrapped /\ body.options = "null"

\* The value of `transparent`: /render passes true, /render-white false, the
\* wrapped endpoints pass the caller's options.
Transparent(body) ==
    IF body.endpoint \in Wrapped THEN body.options # "opaque"
    ELSE body.endpoint # "/render-white"

\* Does the page define window.renderFabricCanvas?  With transparent false,
\* .replace("backgroundColor: null", '"white"') (line 140) turns the options
\* of new fabric.Canvas (lines 41-45) into { width: .., height: .., "white" },
\* the inline script does not parse, and page.evaluate's call of
\* window.renderFabricCanvas throws.
RenderFunctionDefined(body) == Transparent(body)

\* window.renderFabricCanvas: fabricData.width || 800, fabricData.height || 700
fabricCanvasSize(fabricData) ==
    [w |-> OrNum(fabricData.width, DefaultWidth),
     h |-> OrNum(fabricData.height, DefaultHeight)]

\* The awaits of renderFabricCanvasToBuffer inside its try block, each named
\* by the call that is pending, and those of GET /test-browser.
RenderStages == {"setViewport", "setContent", "waitForFunction", "evaluate",
                 "waitForTimeout", "query", "screenshot"}
TestStages == {"goto", "title"}
\* await page.close(): in the finally after `return buffer`, in the finally
\* after a throw, and at line 348.
CloseStages == {"closeReturn", "closeThrow", "closeTest"}

\* The process runs until SIGINT's handler calls process.exit.
Alive == variant = "puppeteer" /\ shutdown # "exited"

\* The instance a puppeteer.launch() that resolves now yields: a new one.
Max(S) == CHOOSE m \in S : \A n \in S : n <= m
NewInstance == 1 + Max({browser} \cup got)

\* initBrowser up to its await: `if (!browser)` and the call of
\* puppeteer.launch; `after` is where the caller goes on with the browser.
InitBrowserCall(c, after) ==
    IF browser = 0
    THEN /\ launches' = launches + 1
         /\ rpc' = [rpc EXCEPT ![c] = "launching"]
         /\ UNCHANGED got
    ELSE /\ got' = got \cup {browser}
         /\ rpc' = [rpc EXCEPT ![c] = after]
         /\ UNCHANGED launches

\* app.listen's callback (lines 386-397).
Listen ==
    /\ Alive
    /\ rpc[Startup] = "idle"
    /\ InitBrowserCall(Startup, "done")
    /\ UNCHANGED <<variant, cvars, browser, req, page, surface, reply, saved,
                   shutdown>>

\* A request arrives.  POST: validation, then renderFabricCanvasToBuffer up
\* to the await of initBrowser (lines 126-129); GET /test-browser: up to the
\* await of initBrowser (line 343).  The server listens before it accepts,
\* and requests are numbered in the order they arrive.
Arrive(r) ==
    /\ Alive
    /\ rpc[r - 1] # "idle"
    /\ rpc[r] = "idle"
    /\ \E body \in Bodies :
          /\ req' = [req EXCEPT ![r] = body]
          /\ IF InvalidRequest(body)
             THEN /\ reply' = [reply EXCEPT ![r] = 400]
                  /\ rpc' = [rpc EXCEPT ![r] = "done"]
                  /\ UNCHANGED <<launches, got>>
             ELSE IF OptionsThrow(body)
             THEN /\ reply' = [reply EXCEPT ![r] = 500]
                  /\ rpc' = [rpc EXCEPT ![r] = "done"]
                  /\ UNCHANGED <<launches, got>>
             ELSE /\ InitBrowserCall(r, "newPage")
                  /\ UNCHANGED reply
    /\ UNCHANGED <<variant, cvars, browser, page, surface, saved, shutdown>>

\* puppeteer.launch resolves: browser = <the instance>; return browser.
LaunchResolved(c) ==
    /\ Alive
    /\ rpc[c] = "launching"
    /\ browser' = NewInstance
    /\ got' = got \cup {NewInstance}
    /\ rpc' = [rpc EXCEPT ![c] = IF c = Startup THEN "done" ELSE "newPage"]
    /\ UNCHANGED <<variant, cvars, launches, req, page, surface, reply, saved,
                   shutdown>>

\* puppeteer.launch rejects: initBrowser throws to its caller.
LaunchRejected(c) ==
    /\ Alive
    /\ rpc[c] = "launching"
    /\ rpc' = [rpc EXCEPT ![c] = "done"]
    /\ reply' = [reply EXCEPT ![c] = IF c = Startup THEN 0 ELSE 500]
    /\ UNCHANGED <<variant, cvars, browser, launches, req, got, page, surface,
                   saved, shutdown>>

\* browser.newPage() resolves (lines 130 and 344); the next call is made.
NewPage(r) ==
    /\ Alive
    /\ rpc[r] = "newPage"
    /\ page' = [page EXCEPT ![r] = "open"]
    /\ rpc' = [rpc EXCEPT ![r] = IF req[r].endpoint = TestBrowser
                                 THEN "goto" ELSE "setViewport"]
    /\ UNCHANGED <<variant, cvars, browser, launches, req, got, surface, reply,
                   saved, shutdown>>

\* browser.newPage() rejects: line 130 is outside the try, nothing is there
\* to close, and the handler's catch answers 500.
NewPageRejected(r) ==
    /\ Alive
    /\ rpc[r] = "newPage"
    /\ reply' = [reply EXCEPT ![r] = 500]
    /\ rpc' = [rpc EXCEPT ![r] = "done"]
    /\ UNCHANGED <<variant, cvars, browser, launches, req, got, page, surface,
                   saved, shutdown>>

\* The pending call of caller r resolves and the code runs to its next await.
Advance(r, from, to) ==
    /\ Alive
    /\ rpc[r] = from
    /\ rpc' = [rpc EXCEPT ![r] = to]
    /\ UNCHANGED <<variant, cvars, browser, launches, req, got, reply, saved,
                   shutdown>>

\* page.setViewport resolves; the template is chosen; page.setContent.
ViewportSet(r) ==
    /\ Advance(r, "setViewport", "setContent")
    /\ UNCHANGED <<page, surface>>

\* page.setContent resolves; page.waitForFunction.
ContentSet(r) ==
    /\ Advance(r, "setContent", "waitForFunction")
    /\ UNCHANGED <<page, surface>>

\* page.waitForFunction resolves: fabric is loaded.  page.evaluate calls
\* window.renderFabricCanvas, which creates the fabric canvas (lines 38-45).
FabricLoaded(r) ==
    /\ Advance(r, "waitForFunction", "evaluate")
    /\ surface' = [surface EXCEPT ![r] =
                      IF RenderFunctionDefined(req[r])
                      THEN fabricCanvasSize(req[r].fabricData) ELSE NoSurface]
    /\ UNCHANGED page

\* page.evaluate resolves (the promise of renderFabricCanvas resolved);
\* page.waitForTimeout.
Evaluated(r) ==
    /\ RenderFunctionDefined(req[r])
    /\ Advance(r, "evaluate", "waitForTimeout")
    /\ UNCHANGED <<page, surface>>

\* page.waitForTimeout resolves; page.$("#canvas-container").
TimeoutElapsed(r) ==
    /\ Advance(r, "waitForTimeout", "query")
    /\ UNCHANGED <<page, surface>>

\* page.$ resolves with the element; canvasElement.screenshot.
Queried(r) ==
    /\ Advance(r, "query", "screenshot")
    /\ UNCHANGED <<page, surface>>

\* canvasElement.screenshot resolves; `return buffer` runs the finally:
\* page.close().
Screenshot(r) ==
    /\ Advance(r, "screenshot", "closeReturn")
    /\ page' = [page EXCEPT ![r] = "closing"]
    /\ UNCHANGED surface

\* A call inside the try rejects (or page.$ finds nothing and line 162
\* throws): the finally calls page.close().
PageFailed(r) ==
    /\ Alive
    /\ rpc[r] \in RenderStages
    /\ page' = [page EXCEPT ![r] = "closing"]
    /\ rpc' = [rpc EXCEPT ![r] = "closeThrow"]
    /\ UNCHANGED <<variant, cvars, browser, launches, req, got, surface, reply,
                   saved, shutdown>>

\* page.goto resolves; page.title.
Goto(r) ==
    /\ Advance(r, "goto", "title")
    /\ UNCHANGED <<page, surface>>

\* page.title resolves; page.close() (line 348).
Title(r) ==
    /\ Advance(r, "title", "closeTest")
    /\ page' = [page EXCEPT ![r] = "closing"]
    /\ UNCHANGED surface

\* page.goto or page.title rejects: the catch answers 500 and nothing closes
\* the page (GET /test-browser has no finally).
TestFailed(r) ==
    /\ Alive
    /\ rpc[r] \in TestStages
    /\ reply' = [reply EXCEPT ![r] = 500]
    /\ rpc' = [rpc EXCEPT ![r] = "done"]
    /\ UNCHANGED <<variant, cvars, browser, launches, req, got, page, surface,
                   saved, shutdown>>

\* page.close() resolves.  After a throw the error goes on to the handler's
\* catch (500); after `return buffer` the file of renderCanvasToPNG is
\* written (line 193) and the handler answers; GET /test-browser answers.
CloseResolved(r) ==
    /\ Alive
    /\ rpc[r] \in CloseStages
    /\ page' = [page EXCEPT ![r] = "closed"]
    /\ saved' = [saved EXCEPT ![r] =
                    rpc[r] = "closeReturn" /\ req[r].endpoint \in Saving]
    /\ reply' = [reply EXCEPT ![r] = IF rpc[r] = "closeThrow" THEN 500 ELSE 200]
    /\ rpc' = [rpc EXCEPT ![r] = "done"]
    /\ UNCHANGED <<variant, cvars, browser, launches, req, got, surface, shutdown>>

\* page.close() resolves and fs.writeFileSync (line 193) throws: 500, no file.
WriteFailed(r) ==
    /\ Alive
    /\ rpc[r] = "closeReturn"
    /\ req[r].endpoint \in Saving
    /\ page' = [page EXCEPT ![r] = "closed"]
    /\ reply' = [reply EXCEPT ![r] = 500]
    /\ rpc' = [rpc EXCEPT ![r] = "done"]
    /\ UNCHANGED <<variant, cvars, browser, launches, req, got, surface, saved,
                   shutdown>>

\* page.close() rejects: its error replaces the buffer or the earlier error,
\* the handler's catch answers 500, and the page has not been closed.
CloseRejected(r) ==
    /\ Alive
    /\ rpc[r] \in CloseStages
    /\ page' = [page EXCEPT ![r] = "open"]
    /\ reply' = [reply EXCEPT ![r] = 500]
    /\ rpc' = [rpc EXCEPT ![r] = "done"]
    /\ UNCHANGED <<variant, cvars, browser, launches, req, got, surface, saved,
                   shutdown>>

\* SIGINT (lines 378-382): `if (browser) await browser.close()`, else
\* process.exit(0) at once.  Requests in flight go on while the close is
\* pending, and `browser` stays set.
Sigint ==
    /\ Alive
    /\ shutdown' = IF browser # 0 THEN "closing" ELSE "exited"
    /\ UNCHANGED <<variant, cvars, browser, launches, rpc, req, got, page,
                   surface, reply, saved>>

\* browser.close() settles: process.exit(0) (line 383), or the rejection
\* ends the process.
SigintClosed ==
    /\ variant = "puppeteer"
    /\ shutdown = "closing"
    /\ shutdown' = "exited"
    /\ UNCHANGED <<variant, cvars, browser, launches, rpc, req, got, page,
                   surface, reply, saved>>

PuppeteerInit ==
    /\ browser = 0
    /\ launches = 0
    /\ rpc = [c \in Callers |-> "idle"]
    /\ req = [c \in Callers |-> NoBody]
    /\ got = {}
    /\ page = [c \in Callers |-> "none"]
    /\ surface = [c \in Callers |-> NoSurface]
    /\ reply = [c \in Callers |-> 0]
    /\ saved = [c \in Callers |-> FALSE]
    /\ shutdown = "running"

RenderNext ==
    \/ RenderObject
    \/ RenderChild
    \/ EndGroup
    \/ \E id \in pending, img \in Images : LoadResolved(id, img)
    \/ \E id \in pending : LoadRejected(id)
    \/ Respond
    \/ \E error \in OutputErrors : RespondFailed(error)

PuppeteerNext ==
    \/ Listen
    \/ \E r \in Requests : Arrive(r)
    \/ \E c \in Callers : LaunchResolved(c)
    \/ \E c \in Callers : LaunchRejected(c)
    \/ \E r \in Requests : NewPage(r)
    \/ \E r \in Requests : NewPageRejected(r)
    \/ \E r \in Requests : ViewportSet(r)
    \/ \E r \in Requests : ContentSet(r)
    \/ \E r \in Requests : FabricLoaded(r)
    \/ \E r \in Requests : Evaluated(r)
    \/ \E r \in Requests : TimeoutElapsed(r)
    \/ \E r \in Requests : Queried(r)
    \/ \E r \in Requests : Screenshot(r)
    \/ \E r \in Requests : PageFailed(r)
    \/ \E r \in Requests : Goto(r)
    \/ \E r \in Requests : Title(r)
    \/ \E r \in Requests : TestFailed(r)
    \/ \E r \in Requests : CloseResolved(r)
    \/ \E r \in Requests : WriteFailed(r)
    \/ \E r \in Requests : CloseRejected(r)
    \/ Sigint
    \/ SigintClosed

\* The canvas server rendering scenes of up to MaxNodes nodes.
Init == variant = "canvas" /\ CanvasInit /\ PuppeteerInit
Next == Post(Docs(MaxNodes)) \/ RenderNext
Spec == Init /\ [][Next]_vars

\* Either server, answering requests of every shape.
ServersInit == variant \in {"canvas", "puppeteer"} /\ CanvasInit /\ PuppeteerInit
ServersNext == Post(ShapeDocs) \/ RenderNext \/ PuppeteerNext
SpecServers == ServersInit /\ [][ServersNext]_vars

(***************************************************************************)
(* Scenes of one positioned node, or one group with one child, over every  *)
(* combination of position, box and anchor.                                *)
(***************************************************************************)
Lefts == {-6, 0, 10}
Tops == {0, 20}
Widths == {0, 4}
Heights == {0, 6}
OriginXs == {"", "left", "center", "right", "middle"}
OriginYs == {"", "top", "center", "bottom", "middle"}

Boxed(base, l, t, w, h, ox, oy) ==
    [base EXCEPT !.left = l, !.top = t, !.width = w, !.height = h,
                 !.originX = ox, !.originY = oy]

Boxes ==
    {Boxed(Blank, l, t, w, h, ox, oy) :
        l \in Lefts, t \in Tops, w \in Widths, h \in Heights,
        ox \in OriginXs, oy \in OriginYs}

ChildBoxes ==
    {Boxed(Blank, 0, 0, 0, 0, "", ""), Boxed(Blank, 3, 5, 0, 0, "left", "top")}
    \cup {Boxed(Blank, 3, 5, 2, 8, ox, oy) :
            ox \in {"center", "right"}, oy \in {"center", "bottom", "middle"}}

GeomDocs ==
    {Doc(Unsized, "array", <<Leaf(b, "text", "Hi", "")>>) : b \in Boxes}
    \cup {Doc(Unsized, "array", <<Leaf(b, "image", "", "a.png")>>) :
            b \in Boxes}
    \cup {Doc(Unsized, "array",
              <<Group(g, "array", <<Leaf(c, "text", "Hi", "")>>)>>) :
            g \in Boxes, c \in ChildBoxes}

\* The canvas server rendering the positioned scenes.
GeomNext == Post(GeomDocs) \/ RenderNext
SpecGeom == Init /\ [][GeomNext]_vars

(***************************************************************************)
(* The properties.                                                         *)
(***************************************************************************)
\* The anchor rule of the origin resolver: the top-left of a box of the
\* given size whose named anchor point is at the given position.  Any other
\* anchor name counts as left / top.
AnchorX(left, width, originX) ==
    CASE originX = "center" -> left - (width \div 2)
      [] originX = "right" -> left - width
      [] OTHER -> left

AnchorY(top, height, originY) ==
    CASE originY = "center" -> top - (height \div 2)
      [] originY = "bottom" -> top - height
      [] OTHER -> top

AnchorPoint(left, top, obj) ==
    [x |-> AnchorX(left, obj.width, obj.originX),
     y |-> AnchorY(top, obj.height, obj.originY)]

\* The two-stage point of a child: the group's top-left, then the child's.
TwoStagePoint(group, child) ==
    LET G == AnchorPoint(group.left, group.top, group)
    IN  AnchorPoint(G.x + child.left, G.y + child.top, child)

\* The child resolved against the raw (group.left, group.top).
RawPoint(group, child) ==
    AnchorPoint(group.left + child.left, group.top + child.top, child)

ExpectedPoint(d, id) ==
    IF id[2] = 0 THEN AnchorPoint(d.objects[id[1]].left, d.objects[id[1]].top,
                                  d.objects[id[1]])
    ELSE TwoStagePoint(d.objects[id[1]], d.objects[id[1]].objects[id[2]])

CmdIndexes == 1..Len(canvas.cmds)
IsStandalone(id) == id[1] > 0 /\ id[2] = 0
IsChild(id) == id[1] > 0 /\ id[2] > 0
Precedes(a, b) == a[1] < b[1] \/ (a[1] = b[1] /\ a[2] < b[2])
CurrentId == IF pc = "children" THEN <<i, j>> ELSE <<i, 0>>

\* The calls a node has made on the context, in order.
CallsOf(id) ==
    LET Own(c) == c.id = id
    IN  SelectSeq(canvas.cmds, Own)

Call(c) == <<c.op, c.a, c.b>>
IsDraw(c) == c.op \in DrawOps
Draws(id) == SelectSeq(CallsOf(id), IsDraw)
HasDrawn(id) == Len(Draws(id)) > 0
Started(id) == Len(CallsOf(id)) > 0
FirstDraw(id) ==
    CHOOSE n \in 1..Len(CallsOf(id)) :
        /\ IsDraw(CallsOf(id)[n])
        /\ \A m \in 1..(n - 1) : ~IsDraw(CallsOf(id)[m])

\* The drawing state the call after call n is made in.
StateAfter(n) ==
    IF n = Len(canvas.cmds) THEN canvas.gs ELSE canvas.cmds[n + 1].gs

\* The entry whose field read threw, <<0, 0>> when none did.
EntryThrew == response.error \in EntryErrors
ThrowingEntry ==
    IF response.error = "child.left" THEN <<i, j>>
    ELSE IF response.error = "obj.type" THEN <<i, 0>>
    ELSE <<0, 0>>

LeafIds(d) ==
    {<<m, 0>> : m \in {n \in 1..Len(d.objects) : d.objects[n].type # "group"}}
    \cup UNION {{<<m, n>> : n \in 1..Len(d.objects[m].objects)} :
                m \in {n \in 1..Len(d.objects) : d.objects[n].type = "group"}}

\* C1: a standalone node is translated to, and a group resolves its own
\* top-left as, left / left - width/2 / left - width for originX left /
\* center / right and top / top - height/2 / top - height for originY top /
\* center / bottom; every other or missing origin value resolves as left /
\* top, and resolving raises no error: a request is failed only by the
\* encoder or the file write, after every node has been resolved.
C1_OriginResolution ==
    /\ \A n \in CmdIndexes :
          LET c == canvas.cmds[n]
          IN  (c.op = "translate" /\ IsStandalone(c.id)) =>
                 LET obj == NodeAt(doc, c.id)
                 IN  /\ c.a = AnchorX(obj.left, obj.width, obj.originX)
                     /\ c.b = AnchorY(obj.top, obj.height, obj.originY)
    /\ pc = "children" =>
          groupActual = AnchorPoint(doc.objects[i].left, doc.objects[i].top,
                                    doc.objects[i])
    /\ response.status \in {0, 200, 500}
    /\ response.status = 500 =>
          /\ response.error \in OutputErrors
          /\ i = Len(doc.objects)

C1_Witness ==
    /\ pc = "responded"
    /\ response.status = 200
    /\ \E n \in CmdIndexes :
          LET c == canvas.cmds[n]
          IN  /\ c.op = "translate"
              /\ IsStandalone(c.id)
              /\ NodeAt(doc, c.id).originX = "center"
              /\ NodeAt(doc, c.id).originY = "middle"
              /\ NodeAt(doc, c.id).width = 4
              /\ NodeAt(doc, c.id).height = 6
              /\ c.a = NodeAt(doc, c.id).left - 2
              /\ c.b = NodeAt(doc, c.id).top

\* A group anchored at a named point other than left / top, with a box that
\* has a width and a height.
AnchoredGroup(group) ==
    /\ group.originX \in {"center", "right"} \/ group.originY \in {"center", "bottom"}
    /\ group.width # 0
    /\ group.height # 0

\* C2: every child of a group is translated to the two-stage point (the
\* group's own top-left first, then the child's anchor within it), and when
\* the group has a non-default origin and a non-zero box that point is not
\* the point the child would get against the raw (group.left, group.top).
C2_TwoStageResolution ==
    \A n \in CmdIndexes :
        LET c == canvas.cmds[n]
        IN  (c.op = "translate" /\ IsChild(c.id)) =>
               LET group == doc.objects[c.id[1]]
                   child == NodeAt(doc, c.id)
               IN  /\ [x |-> c.a, y |-> c.b] = TwoStagePoint(group, child)
                   /\ AnchoredGroup(group) =>
                         [x |-> c.a, y |-> c.b] # RawPoint(group, child)

C2_Witness ==
    /\ pc = "responded"
    /\ \E n \in CmdIndexes :
          LET c == canvas.cmds[n]
          IN  /\ c.op = "translate"
              /\ IsChild(c.id)
              /\ AnchoredGroup(doc.objects[c.id[1]])
              /\ doc.objects[c.id[1]].originX = "right"
              /\ NodeAt(doc, c.id).originX = "center"
              /\ NodeAt(doc, c.id).width = 2

\* The transform calls the claim expects of a leaf before it draws.
ExpectedTransform(d, id) ==
    LET obj == NodeAt(d, id)
        at == ExpectedPoint(d, id)
        sx == IF obj.scaleX = 0 THEN 1 ELSE obj.scaleX
        sy == IF obj.scaleY = 0 THEN 1 ELSE obj.scaleY
    IN  <<  <<"save", 0, 0>>, <<"translate", at.x, at.y>> >>
        \o (IF obj.angle # 0 THEN << <<"rotate", obj.angle, HalfTurn>> >> ELSE <<>>)
        \o << <<"scale", sx, sy>> >>

\* A sequence of calls without the scale calls that change nothing.
NotUnitScale(call) == call # <<"scale", 1, 1>>
Effective(calls) == SelectSeq(calls, NotUnitScale)

CallsBeforeDraw(id) ==
    [n \in 1..(FirstDraw(id) - 1) |-> Call(CallsOf(id)[n])]

\* C3: every leaf that is drawn, standalone or child of a group, has made
\* exactly these calls between its save and its drawer: translate to the
\* resolved top-left, rotate by angle degrees when angle is nonzero, scale by
\* (scaleX, scaleY) with defaults 1 (a scale by (1, 1) may be left out).
C3_TranslateRotateScale ==
    \A id \in LeafIds(doc) :
        HasDrawn(id) =>
           Effective(CallsBeforeDraw(id)) = Effective(ExpectedTransform(doc, id))

\* The same statement for the children of groups only.
C3_ChildrenOnly ==
    \A id \in LeafIds(doc) :
        (IsChild(id) /\ HasDrawn(id)) => CallsBeforeDraw(id) = ExpectedTransform(doc, id)

\* C4: calls reach the context in document order (every call of a node,
\* including what it draws after its image load settles, comes before the
\* first call of a later node), and while a load is pending it is the load
\* of the node last started and no later node has made a call.
C4_DocumentOrder ==
    /\ \A m, n \in CmdIndexes :
          m < n => ~Precedes(canvas.cmds[n].id, canvas.cmds[m].id)
    /\ \A p \in pending :
          /\ p = CurrentId
          /\ \A n \in CmdIndexes : ~Precedes(p, canvas.cmds[n].id)

C4_Witness ==
    /\ pc = "responded"
    /\ \E m, n \in CmdIndexes :
          /\ m < n
          /\ canvas.cmds[m].op = "drawImage"
          /\ canvas.cmds[n].op = "fillText"
          /\ canvas.cmds[m].id = <<1, 1>>
          /\ canvas.cmds[n].id = <<2, 0>>

Failed == {errorLog[n] : n \in 1..Len(errorLog)}

\* C5: a failed image load leaves exactly a #cccccc rectangle of
\* width x height (100 where unset) at (0,0) and the label "Image Error",
\* the failure throws nothing (the only entries that abandon a render are
\* the null ones), every later node translates to its own resolved point
\* from the untouched base transform, and a request that was answered after
\* a failed load has processed every leaf of the scene, or every leaf before
\* a null entry.
C5_ImageFailurePlaceholder ==
    /\ \A id \in Failed :
          LET obj == NodeAt(doc, id)
              w == IF obj.width = 0 THEN 100 ELSE obj.width
              h == IF obj.height = 0 THEN 100 ELSE obj.height
          IN  /\ Len(Draws(id)) = 2
              /\ Draws(id)[1].op = "fillRect"
              /\ <<Draws(id)[1].a, Draws(id)[1].b>> = <<0, 0>>
              /\ <<Draws(id)[1].c, Draws(id)[1].d>> = <<w, h>>
              /\ Draws(id)[1].gs.fillStyle = "#cccccc"
              /\ Draws(id)[2].op = "fillText"
              /\ Draws(id)[2].s = "Image Error"
              /\ \A n \in CmdIndexes :
                    LET c == canvas.cmds[n]
                    IN  (c.op = "translate" /\ Precedes(id, c.id)) =>
                           /\ c.gs.transform = <<>>
                           /\ [x |-> c.a, y |-> c.b] = ExpectedPoint(doc, c.id)
    /\ \A id \in Failed : ThrowingEntry # id
    /\ EntryThrew => NodeAt(doc, ThrowingEntry).isNull
    /\ (Failed # {} /\ pc = "responded") =>
          \A id \in LeafIds(doc) :
             Started(id) \/ (EntryThrew /\ ~Precedes(id, ThrowingEntry))

C5_Witness ==
    /\ pc = "responded"
    /\ response.status = 200
    /\ <<1, 0>> \in Failed
    /\ NodeAt(doc, <<1, 0>>).width = 0
    /\ HasDrawn(<<2, 1>>)
    /\ NodeAt(doc, <<2, 1>>).left = 10

\* The surface size the claim expects: the document's, else 800 x 700.
ExpectedSize(d) ==
    [w |-> IF d.width = 0 THEN 800 ELSE d.width,
     h |-> IF d.height = 0 THEN 700 ELSE d.height]

\* C6: the surface created for a render, and the size reported to the
\* caller, are the document's width and height when given and 800 x 700
\* only when absent.
C6_DocumentSize ==
    /\ (variant = "canvas" /\ pc \in {"objects", "children"}) =>
          [w |-> canvas.w, h |-> canvas.h] = ExpectedSize(doc)
    /\ (variant = "canvas" /\ response.status = 200) =>
          [w |-> response.width, h |-> response.height] = ExpectedSize(doc)
    /\ \A r \in Requests :
          surface[r] # NoSurface => surface[r] = ExpectedSize(req[r].fabricData)

\* The same statement for the puppeteer server alone.
C6_FabricSize ==
    \A r \in Requests :
        surface[r] # NoSurface => surface[r] = ExpectedSize(req[r].fabricData)

\* C7: on every render endpoint a request whose document has no objects
\* field, or objects that is not an array, is answered 400 and nothing is
\* rendered for it: no surface, no page, no drawing call, no file.
C7_RejectedBeforeRendering ==
    /\ (variant = "canvas" /\ pc # "idle" /\ doc.objectsKind # "array") =>
          /\ response.status = 400
          /\ canvas = NoCanvas
          /\ ~fileWritten
    /\ \A r \in Requests :
          ( /\ rpc[r] # "idle"
            /\ req[r].endpoint \in Endpoints
            /\ req[r].fabricData.objectsKind # "array" ) =>
             /\ reply[r] = 400
             /\ page[r] = "none"
             /\ surface[r] = NoSurface
             /\ ~saved[r]

C7_Witness ==
    \E r \in Requests :
        /\ req[r].endpoint = "/render-base64"
        /\ req[r].hasFabricData
        /\ req[r].fabricData.objectsKind = "string"
        /\ req[r].options = "null"
        /\ reply[r] = 400
        /\ launches = 1

\* A node with nothing to draw.
NothingToDraw(obj) ==
    /\ ~obj.isNull
    /\ \/ obj.type \notin {"group", "text", "i-text", "image"}
       \/ obj.type \in {"text", "i-text"} /\ obj.text = ""
       \/ obj.type = "image" /\ obj.src = ""

\* C8: a node with nothing to draw makes no fill or draw call, waits for
\* nothing, is never the entry that throws, and hands the context on exactly
\* as it received it, so what follows is rendered as if the node were absent.
C8_SkippedNodes ==
    /\ \A id \in LeafIds(doc) :
          NothingToDraw(NodeAt(doc, id)) =>
             /\ ~HasDrawn(id)
             /\ id \notin pending
             /\ ThrowingEntry # id
             /\ \A m, n \in CmdIndexes :
                   ( /\ canvas.cmds[m].id = id
                     /\ canvas.cmds[m].op = "save"
                     /\ canvas.cmds[n].id = id
                     /\ canvas.cmds[n].op = "restore" ) =>
                      StateAfter(n) = canvas.cmds[m].gs
             /\ Started(id) =>
                   \E n \in CmdIndexes :
                      canvas.cmds[n].id = id /\ canvas.cmds[n].op = "restore"

C8_Witness ==
    /\ pc = "responded"
    /\ response.status = 200
    /\ Len(doc.objects) = 3
    /\ NodeAt(doc, <<1, 0>>).type = "rect"
    /\ NodeAt(doc, <<2, 0>>).type = "i-text"
    /\ NodeAt(doc, <<2, 0>>).text = ""
    /\ HasDrawn(<<3, 0>>)

Count(op) ==
    LET Is(c) == c.op = op
    IN  Len(SelectSeq(canvas.cmds, Is))

\* The drawing state renderFabricCanvasFromJSON hands to the first node.
BaseState == newSurface(doc).gs

\* The calls op a node has made.
CountOf(id, op) ==
    LET Is(c) == c.op = op
    IN  Len(SelectSeq(CallsOf(id), Is))

\* C9: whenever renderObjectWithOrigin has returned (every exit of a call
\* on a node; a null entry makes the call throw instead), saves and restores
\* are balanced, nothing is left on the state stack, and transform, font and
\* fill style are what they were before the call; every node that has
\* returned has made one save and one restore; so every node is entered in
\* the state the first node was entered in.
C9_ContextRestored ==
    /\ ( /\ pc \in {"objects", "responded"}
         /\ pending = {}
         /\ response.status # 400
         /\ ~EntryThrew ) =>
          /\ Count("save") = Count("restore")
          /\ canvas.stack = <<>>
          /\ canvas.gs = BaseState
    /\ \A id \in LeafIds(doc) :
          (Started(id) /\ id \notin pending /\ ~NodeAt(doc, id).isNull) =>
             /\ CountOf(id, "save") = 1
             /\ CountOf(id, "restore") = 1
    /\ \A n \in CmdIndexes :
          canvas.cmds[n].op = "save" => canvas.cmds[n].gs = BaseState

C9_Witness ==
    /\ pc = "objects"
    /\ pending = {}
    /\ i = 2
    /\ <<1, 0>> \in Failed
    /\ \E n \in CmdIndexes :
          /\ canvas.cmds[n].id = <<2, 0>>
          /\ canvas.cmds[n].op = "fillText"
          /\ canvas.cmds[n].gs.fillStyle = "#ff0000"

\* C10: puppeteer.launch is invoked at most once per process and every
\* caller of initBrowser receives the same browser instance.
C10_SingleBrowser ==
    /\ launches <= 1
    /\ Cardinality(got) <= 1

====
